---------------------------- MODULE Spec2Model ----------------------------
(***************************************************************************)
(* app-tree: the directory walker, the renderer, the report buffer and the *)
(* one-shot delivery server.                                               *)
(*                                                                         *)
(* The repository holds three variants of the program:                     *)
(*   "main"     src/main.go           (html flag, serve otherwise)         *)
(*   "part_001" src/unnamed/part_001  (static export only)                 *)
(*   "part_002" src/unnamed/part_002  (serve only, no escaping)            *)
(*                                                                         *)
(* Strings are sequences of tokens.  A token is one byte of a file, one    *)
(* path component, or one literal piece of a format string.  An escaped    *)
(* byte is the one token that holds its entity ("&lt;").                   *)
(***************************************************************************)
EXTENDS Integers, Sequences, FiniteSets, TLC

VARIABLES
    variant,       \* which source file is running
    generateHTML,  \* the --html flag
    fs,            \* the directory tree on disk (never mutated by the program)
    pc,            \* position of the main flow (runAnalysis)
    totalItems,    \* result of countItems(absDir)
    barCount,      \* number of bar.Add(1) calls so far
    stack,         \* call stack of traverseDirectory
    output,        \* var output strings.Builder
    outputMu,      \* var outputMu sync.Mutex: holder, or NoOwner
    blocks,        \* history: the arguments of writeOutput, in call order
    visited,       \* history: the entries traverseDirectory / processFile were called on
    tempDir,       \* staging directory: "none", "exists", "removed"
    staged,        \* the staged report file exists in tempDir
    exported,      \* a report file was written to the working directory
    wg,            \* sync.WaitGroup counter
    server,        \* "idle", "bound", "serving", "returned"
    reqs,          \* per request: "none", "pending", "served", "notfound"
    timers,        \* ticks the exit goroutine started for a request still sleeps
    proc,          \* "running", or how the process ended
    cpc,           \* concurrent appenders: position of each caller
    cidx,          \* concurrent appenders: index of the block being appended
    cbuf           \* concurrent appenders: the buffer value read by WriteString

walkVars == <<totalItems, barCount, stack, output, blocks, visited>>
runVars  == <<tempDir, staged, exported, wg, server, reqs, timers, proc>>
aggVars  == <<cpc, cidx, cbuf>>
vars == <<variant, generateHTML, fs, pc, outputMu, walkVars, runVars, aggVars>>

---------------------------------------------------------------------------
(* Bounds *)

MaxNodes    == 4   \* entries in the tree, the root included
MaxRequests == 2   \* HTTP requests the environment sends
GraceTicks  == 2   \* clock ticks that make up the grace delay
MaxCallers  == 2   \* concurrent callers of writeOutput
MaxBlocks   == 2   \* blocks each concurrent caller appends

Variants == {"main", "part_001", "part_002"}
Root     == 0
Nodes    == 0 .. (MaxNodes - 1)
NoOwner  == 0

---------------------------------------------------------------------------
(* Strings *)

RECURSIVE Flatten(_)
Flatten(ss) == IF ss = <<>> THEN <<>> ELSE Head(ss) \o Flatten(Tail(ss))

IsPrefix(s, t) == Len(s) <= Len(t) /\ SubSeq(t, 1, Len(s)) = s

Markup == {"<", ">", "&", "\"", "'"}

\* html/template.HTMLEscapeString, one byte at a time
EscapeByte(c) ==
    CASE c = "<"  -> "&lt;"
      [] c = ">"  -> "&gt;"
      [] c = "&"  -> "&amp;"
      [] c = "\"" -> "&#34;"
      [] c = "'"  -> "&#39;"
      [] OTHER    -> c

HTMLEscapeString(s) == [i \in 1 .. Len(s) |-> EscapeByte(s[i])]

\* strings.Split(s, "\n"): always at least one (possibly empty) element
RECURSIVE SplitFrom(_, _, _)
SplitFrom(s, i, cur) ==
    IF i > Len(s) THEN <<cur>>
    ELSE IF s[i] = "\n" THEN <<cur>> \o SplitFrom(s, i + 1, <<>>)
    ELSE SplitFrom(s, i + 1, Append(cur, s[i]))

Split(s) == SplitFrom(s, 1, <<>>)

\* indent + "  " applied depth times to ""
Indent(depth) == [i \in 1 .. depth |-> "  "]

Separator == "==========================\n"

---------------------------------------------------------------------------
(* The filesystem *)

\* What the reader and the classifier (filetype.Match) see of a file: its bytes
\* and the MIME value of the matched kind, empty for filetype.Unknown.
FileProfiles ==
    { [content |-> <<"<", "a", "\n", "&">>, mime |-> <<"text", "/", "plain">>],
      [content |-> <<">", "\"", "'">>,       mime |-> <<"image", "/", "png">>],
      [content |-> <<"<">>,                  mime |-> <<>>] }

Absent == [parent |-> Root, kind |-> "none", readable |-> FALSE,
           content |-> <<>>, mime |-> <<>>]

DirEntries(ps) == [parent : ps, kind : {"dir"}, readable : BOOLEAN,
                   content : {<<>>}, mime : {<<>>}]
FileEntries(ps) ==
    { [parent |-> p, kind |-> "file", readable |-> TRUE,
       content |-> f.content, mime |-> f.mime] : p \in ps, f \in FileProfiles }
    \cup
    { [parent |-> p, kind |-> "file", readable |-> FALSE,
       content |-> <<>>, mime |-> <<>>] : p \in ps }

\* The trees over nodes 0 .. k: node 0 is the root directory; every other node
\* is absent or hangs under an earlier directory.
RECURSIVE TreesUpTo(_)
TreesUpTo(k) ==
    IF k = 0
    THEN { [n \in {Root} |-> e] : e \in DirEntries({Root}) }
    ELSE { [n \in 0 .. k |-> IF n = k THEN e ELSE t[n]] :
             <<t, e>> \in
               { te \in TreesUpTo(k - 1)
                          \X (DirEntries(0 .. (k - 1)) \cup FileEntries(0 .. (k - 1))
                                \cup {Absent}) :
                    te[2] # Absent => te[1][te[2].parent].kind = "dir" } }

Trees == TreesUpTo(MaxNodes - 1)

Name(n) == ToString(n)
AbsDir  == <<"/", "root">>

\* filepath.Join(dir, entry.Name())
Join(dir, name) == dir \o <<"/", name>>

Children(t, d) == { n \in DOMAIN t \ {Root} : t[n] # Absent /\ t[n].parent = d }

RECURSIVE SortedSeq(_)
SortedSeq(S) ==
    IF S = {} THEN <<>>
    ELSE LET m == CHOOSE x \in S : \A y \in S : x <= y
         IN  <<m>> \o SortedSeq(S \ {m})

\* os.ReadDir(dir): the entries sorted by filename
ReadDir(t, d) == SortedSeq(Children(t, d))

---------------------------------------------------------------------------
(* Renderer *)

\* fmt.Sprintf("\nDIRECTORY: %s\n%s==========================\n", dir, indent)
DirBlock(dir, indent) ==
    <<"\nDIRECTORY: ">> \o dir \o <<"\n">> \o indent \o <<Separator>>

\* fileTypeStr: "unknown" unless the classifier matched a kind
FileTypeStr(mime) == IF mime = <<>> THEN <<"unknown">> ELSE mime

\* strings.HasPrefix(fileTypeStr, "text")
HasTextPrefix(label) == IsPrefix(<<"text">>, label)

\* Whether this variant's processFile escapes the lines of a text file.
Escapes(v) == v # "part_002"

ContentLine(v, indent, line) ==
    indent \o (IF Escapes(v) THEN HTMLEscapeString(line) ELSE line) \o <<"\n">>

Placeholder(indent) == indent \o <<"[Binary file content not displayed]\n">>

FileHeader(file, label, size, indent) ==
    <<"\nFILE: ">> \o file \o <<"\nTYPE: ">> \o label
       \o <<"\nSIZE: ", ToString(size), " bytes\nCONTENT:\n">>
       \o indent \o <<Separator>>

ContentRegion(v, e, indent) ==
    IF HasTextPrefix(FileTypeStr(e.mime))
    THEN LET lines == Split(e.content)
         IN  Flatten([k \in 1 .. Len(lines) |-> ContentLine(v, indent, lines[k])])
    ELSE Placeholder(indent)

FileBlock(v, file, e, indent) ==
    FileHeader(file, FileTypeStr(e.mime), Len(e.content), indent)
       \o ContentRegion(v, e, indent)
       \o indent \o <<Separator>>

\* processFile: the blocks it hands to writeOutput (none when ReadFile fails)
processFileIgnoresError(v, file, e, indent) == <<FileBlock(v, file, e, indent)>>
processFile(v, file, e, indent) ==
    IF ~e.readable THEN <<>> ELSE <<FileBlock(v, file, e, indent)>>

---------------------------------------------------------------------------
(* Aggregator *)

MutexFreeBroken(mu) == TRUE
\* outputMu.Lock() returns only when nobody holds the mutex
MutexFree(mu) == mu = NoOwner

WriteStringPrepend(buf, content) == content \o buf
\* output.WriteString(content)
WriteString(buf, content) == buf \o content

\* writeOutput(content), called by `who`, with no other caller in between
writeOutput(who, bs) ==
    /\ MutexFree(outputMu)
    /\ output' = IF bs = <<>> THEN output ELSE WriteString(output, bs[1])
    /\ blocks' = IF bs = <<>> THEN blocks
                 ELSE Append(blocks, [node |-> who, text |-> bs[1]])
    /\ UNCHANGED outputMu

---------------------------------------------------------------------------
(* Walker *)

\* filepath.Walk with the counting callback: a directory whose listing fails
\* reaches the callback with err # nil and is not counted.
RECURSIVE WalkCount(_, _)
WalkCount(t, n) ==
    IF t[n].kind = "file" THEN 1
    ELSE IF ~t[n].readable THEN 0
    ELSE LET kids == ReadDir(t, n)
             RECURSIVE Sum(_)
             Sum(i) == IF i > Len(kids) THEN 0
                       ELSE WalkCount(t, kids[i]) + Sum(i + 1)
         IN  1 + Sum(1)

countItems(t) == WalkCount(t, Root)

\* bar.Add(1) comes before the entry is processed (main.go, part_002) or
\* after it (part_001).
BarFirst(v) == v # "part_001"

Frame(n, path, depth) ==
    [dir |-> n, path |-> path, depth |-> depth, entries |-> <<>>, i |-> 1,
     st |-> "call"]

Top == stack[Len(stack)]
Pop == SubSeq(stack, 1, Len(stack) - 1)
SetTop(f) == [stack EXCEPT ![Len(stack)] = f]

\* totalItems := countItems(absDir); then traverseDirectory(absDir, "", bar)
CountItems ==
    /\ proc = "running" /\ pc = "count"
    /\ totalItems' = countItems(fs)
    /\ stack' = <<Frame(Root, AbsDir, 0)>>
    /\ pc' = "traverse"
    /\ UNCHANGED <<variant, generateHTML, fs, outputMu, barCount, output, blocks,
                   visited, runVars, aggVars>>

EnterHeaderFirst(ok, entries) ==
    [entries |-> IF ok THEN entries ELSE <<>>, header |-> TRUE]
\* os.ReadDir(dir) at the top of traverseDirectory: what the frame iterates
\* over and whether the header is written
EnterResult(ok, entries) ==
    [entries |-> IF ok THEN entries ELSE <<>>, header |-> ok]

\* traverseDirectory(dir, indent, bar) up to its loop
TraverseEnter ==
    /\ proc = "running" /\ pc = "traverse" /\ stack # <<>> /\ Top.st = "call"
    /\ LET f == Top
           r == EnterResult(fs[f.dir].readable, ReadDir(fs, f.dir))
       IN  /\ writeOutput(f.dir, IF r.header
                                 THEN <<DirBlock(f.path, Indent(f.depth))>>
                                 ELSE <<>>)
           /\ stack' = SetTop([f EXCEPT !.entries = r.entries, !.st = "loop"])
           /\ visited' = Append(visited, f.dir)
    /\ UNCHANGED <<variant, generateHTML, fs, pc, totalItems, barCount, runVars,
                   aggVars>>

\* one loop iteration on a subdirectory: the recursive call
LoopDir ==
    /\ proc = "running" /\ pc = "traverse" /\ stack # <<>> /\ Top.st = "loop"
    /\ Top.i <= Len(Top.entries)
    /\ LET f == Top
           n == f.entries[f.i]
       IN  /\ fs[n].kind = "dir"
           /\ barCount' = IF BarFirst(variant) THEN barCount + 1 ELSE barCount
           /\ stack' = Append(stack, Frame(n, Join(f.path, Name(n)), f.depth + 1))
    /\ UNCHANGED <<variant, generateHTML, fs, pc, outputMu, totalItems, output,
                   blocks, visited, runVars, aggVars>>

\* one loop iteration on a file: processFile(path, indent + "  ") and bar.Add(1)
LoopFile ==
    /\ proc = "running" /\ pc = "traverse" /\ stack # <<>> /\ Top.st = "loop"
    /\ Top.i <= Len(Top.entries)
    /\ LET f == Top
           n == f.entries[f.i]
       IN  /\ fs[n].kind = "file"
           /\ writeOutput(n, processFile(variant, Join(f.path, Name(n)), fs[n],
                                         Indent(f.depth + 1)))
           /\ visited' = Append(visited, n)
           /\ barCount' = barCount + 1
           /\ stack' = SetTop([f EXCEPT !.i = f.i + 1])
    /\ UNCHANGED <<variant, generateHTML, fs, pc, totalItems, runVars, aggVars>>

\* traverseDirectory returns: to the loop of its caller, or to runAnalysis
TraverseReturn ==
    /\ proc = "running" /\ pc = "traverse" /\ stack # <<>> /\ Top.st = "loop"
    /\ Top.i > Len(Top.entries)
    /\ IF Len(stack) = 1
       THEN /\ stack' = <<>>
            /\ pc' = "sink"
            /\ UNCHANGED barCount
       ELSE /\ stack' = [Pop EXCEPT ![Len(stack) - 1].i = @ + 1]
            /\ barCount' = IF BarFirst(variant) THEN barCount ELSE barCount + 1
            /\ UNCHANGED pc
    /\ UNCHANGED <<variant, generateHTML, fs, outputMu, totalItems, output, blocks,
                   visited, runVars, aggVars>>

NextWalk == CountItems \/ TraverseEnter \/ LoopDir \/ LoopFile \/ TraverseReturn

InitWalkVars ==
    /\ totalItems = 0 /\ barCount = 0 /\ stack = <<>>
    /\ output = <<>> /\ blocks = <<>> /\ visited = <<>>

InitAggVars ==
    /\ cpc = [c \in 1 .. MaxCallers |-> "idle"]
    /\ cidx = [c \in 1 .. MaxCallers |-> 1]
    /\ cbuf = [c \in 1 .. MaxCallers |-> <<>>]

InitRunVars ==
    /\ tempDir = "none" /\ staged = FALSE /\ exported = FALSE
    /\ wg = 0 /\ server = "idle"
    /\ reqs = [r \in 1 .. MaxRequests |-> "none"]
    /\ timers = <<>>
    /\ proc = "running"

\* The walker alone: the state of runAnalysis once the staging directory
\* exists, for every tree of at most MaxNodes entries.
InitWalk ==
    /\ variant \in Variants
    /\ generateHTML = FALSE
    /\ fs \in Trees
    /\ pc = "count"
    /\ outputMu = NoOwner
    /\ InitWalkVars
    /\ tempDir = "exists" /\ staged = FALSE /\ exported = FALSE
    /\ wg = 0 /\ server = "idle"
    /\ reqs = [r \in 1 .. MaxRequests |-> "none"]
    /\ timers = <<>>
    /\ proc = "running"
    /\ InitAggVars

SpecWalk == InitWalk /\ [][NextWalk]_vars

---------------------------------------------------------------------------
(* What a traversal is expected to leave behind *)

RECURSIVE PathOf(_, _)
PathOf(t, n) == IF n = Root THEN AbsDir ELSE Join(PathOf(t, t[n].parent), Name(n))

RECURSIVE DepthOf(_, _)
DepthOf(t, n) == IF n = Root THEN 0 ELSE 1 + DepthOf(t, t[n].parent)

\* Depth-first pre-order of the entries a traversal from n meets: a directory,
\* then, when it can be listed, its children in listing order.
RECURSIVE PreOrder(_, _)
PreOrder(t, n) ==
    <<n>> \o
    (IF t[n].kind = "dir" /\ t[n].readable
     THEN LET kids == ReadDir(t, n)
          IN  Flatten([k \in 1 .. Len(kids) |-> PreOrder(t, kids[k])])
     ELSE <<>>)

\* The block of one entry; none for an entry that cannot be read.
BlockOf(v, t, n) ==
    IF ~t[n].readable THEN <<>>
    ELSE IF t[n].kind = "dir" THEN DirBlock(PathOf(t, n), Indent(DepthOf(t, n)))
    ELSE FileBlock(v, PathOf(t, n), t[n], Indent(DepthOf(t, n)))

Expected(v, t) ==
    LET order == PreOrder(t, Root)
    IN  Flatten([k \in 1 .. Len(order) |-> BlockOf(v, t, order[k])])

RECURSIVE UnderUnreadable(_, _)
\* n is an unreadable directory below the root, or lies beneath one
UnderUnreadable(t, n) ==
    IF n = Root THEN FALSE
    ELSE \/ (t[n].kind = "dir" /\ ~t[n].readable)
         \/ UnderUnreadable(t, t[n].parent)

\* The same tree with every unreadable subdirectory, and all beneath it, removed.
Prune(t) == [n \in DOMAIN t |->
               IF t[n] # Absent /\ UnderUnreadable(t, n) THEN Absent ELSE t[n]]

\* The report of a tree all of whose directories can be listed.
RECURSIVE ListAll(_, _)
ListAll(t, n) ==
    <<n>> \o
    (IF t[n].kind = "dir"
     THEN LET kids == ReadDir(t, n)
          IN  Flatten([k \in 1 .. Len(kids) |-> ListAll(t, kids[k])])
     ELSE <<>>)

ReportOfListable(v, t) ==
    LET order == ListAll(t, Root)
    IN  Flatten([k \in 1 .. Len(order) |->
                   IF t[order[k]].kind = "dir"
                   THEN DirBlock(PathOf(t, order[k]), Indent(DepthOf(t, order[k])))
                   ELSE BlockOf(v, t, order[k])])

Walked == pc = "sink"

BlocksOf(n) == { k \in 1 .. Len(blocks) : blocks[k].node = n }
VisitsOf(n) == { k \in 1 .. Len(visited) : visited[k] = n }
Present(t)  == { n \in DOMAIN t : n = Root \/ t[n] # Absent }

---------------------------------------------------------------------------
(* Claims about the walker (SpecWalk) *)

\* C2: the total countItems returns before the traversal of a readable root
\* equals the number of bar.Add(1) calls made during the whole traversal.
C2_TotalEqualsProgress ==
    (Walked /\ fs[Root].readable) => totalItems = barCount

\* C6: a subdirectory whose listing fails gets no block, nothing beneath it
\* gets one, its siblings are still visited in order, and the final report is
\* the report of the tree with the unreadable subtrees removed.
C6_UnreadableSubtreeSkipped ==
    (Walked /\ fs[Root].readable) =>
       /\ output = ReportOfListable(variant, Prune(fs))
       /\ \A n \in Present(fs) :
             /\ UnderUnreadable(fs, n) => BlocksOf(n) = {}
             /\ ~UnderUnreadable(fs, n) => VisitsOf(n) # {}

\* C6 witness: a finished traversal met an unreadable subdirectory with an
\* entry beneath it, and a later sibling of it still got its block.
C6_Witness ==
    /\ Walked /\ fs[Root].readable
    /\ \E d, below, sib \in Present(fs) :
          /\ fs[d].kind = "dir" /\ ~fs[d].readable /\ fs[d].parent = Root /\ d # Root
          /\ fs[below] # Absent /\ fs[below].parent = d /\ below # d
          /\ fs[sib].parent = Root /\ sib > d /\ BlocksOf(sib) # {}
          /\ BlocksOf(d) = {} /\ BlocksOf(below) = {}

\* C7: in every variant, no markup-significant byte of a text file's content
\* reaches the report unescaped.
C7_TextContentEscaped ==
    \A k \in 1 .. Len(blocks) :
       LET e == fs[blocks[k].node]
       IN  (e.kind = "file" /\ HasTextPrefix(FileTypeStr(e.mime))) =>
              \A j \in 1 .. Len(blocks[k].text) : blocks[k].text[j] \notin Markup

\* C8: the report only ever grows at its end, and after the traversal it is
\* the concatenation of the entries' blocks in depth-first pre-order.
C8_AppendOnlyPreOrder ==
    /\ [][IsPrefix(output, output')]_vars
    /\ [](Walked => output = Expected(variant, fs))

\* C8 witness: a finished traversal wrote a directory header, then a block of
\* a descendant of a subdirectory, at least three blocks in all.
C8_Witness ==
    /\ Walked /\ Len(blocks) >= 3
    /\ \E n \in Present(fs) :
          /\ n # Root /\ fs[n].parent # Root /\ BlocksOf(n) # {}
          /\ BlocksOf(fs[n].parent) # {}

\* C10 as stated: after the traversal of a readable root, the number of blocks
\* appended equals the number of entries visited.
C10_OneBlockPerVisited ==
    (Walked /\ fs[Root].readable) => Len(blocks) = Len(visited)

\* C10 amended: every entry is visited at most once; a visited entry that
\* could be read (directory listed, file read) has appended exactly one block,
\* a visited entry that could not be read has appended none, and nothing else
\* appends a block.
C10_OneBlockPerReadEntry ==
    /\ \A n \in Present(fs) :
          /\ Cardinality(VisitsOf(n)) <= 1
          /\ Cardinality(BlocksOf(n)) =
                (IF VisitsOf(n) # {} /\ fs[n].readable THEN 1 ELSE 0)
    /\ Len(blocks) = Cardinality({ n \in Present(fs) :
                                     VisitsOf(n) # {} /\ fs[n].readable })

\* C10 witness: a finished traversal visited a file it could not read, a file
\* it could read and a subdirectory.
C10_Witness ==
    /\ Walked
    /\ \E a, b, c \in Present(fs) :
          /\ fs[a].kind = "file" /\ ~fs[a].readable /\ VisitsOf(a) # {}
          /\ fs[b].kind = "file" /\ fs[b].readable /\ BlocksOf(b) # {}
          /\ fs[c].kind = "dir" /\ c # Root /\ BlocksOf(c) # {}

---------------------------------------------------------------------------
(* runAnalysis *)

\* defer os.RemoveAll(tempDir), run when runAnalysis returns
deferRemoveAll(td) == IF td = "exists" THEN "removed" ELSE td

\* runAnalysis returns, main returns, the process ends
Return ==
    /\ proc' = "returned"
    /\ tempDir' = deferRemoveAll(tempDir)
    /\ staged' = IF deferRemoveAll(tempDir) = "removed" THEN FALSE ELSE staged

Serves(v, html) == v = "part_002" \/ (v = "main" /\ ~html)

\* filepath.Abs(dir)
ResolvePath ==
    /\ proc = "running" /\ pc = "start"
    /\ \E ok \in BOOLEAN :
          IF ok THEN pc' = "tempdir" /\ UNCHANGED <<proc, tempDir, staged>>
                ELSE Return /\ UNCHANGED pc
    /\ UNCHANGED <<variant, generateHTML, fs, outputMu, walkVars, exported, wg,
                   server, reqs, timers, aggVars>>

\* ioutil.TempDir("", "app-tree") and the defer that follows it
CreateTempDir ==
    /\ proc = "running" /\ pc = "tempdir"
    /\ \E ok \in BOOLEAN :
          IF ok THEN /\ tempDir' = "exists"
                     /\ pc' = "count"
                     /\ UNCHANGED <<proc, staged>>
                ELSE Return /\ UNCHANGED pc
    /\ UNCHANGED <<variant, generateHTML, fs, outputMu, walkVars, exported, wg,
                   server, reqs, timers, aggVars>>

\* the static sinks: app_tree.html, or app_tree_prompt.txt in the working
\* directory (part_001), then return
ExportStatic ==
    /\ proc = "running" /\ pc = "sink" /\ ~Serves(variant, generateHTML)
    /\ \E ok \in BOOLEAN : exported' = ok
    /\ Return
    /\ UNCHANGED <<variant, generateHTML, fs, pc, outputMu, walkVars, wg, server,
                   reqs, timers, aggVars>>

\* ioutil.WriteFile(filepath.Join(tempDir, outputFileName), ...).  main.go then
\* calls serveResult(outputPath), a function the file does not define: that
\* run is followed no further.  part_002 goes on to start the server inline.
StageReport ==
    /\ proc = "running" /\ pc = "sink" /\ Serves(variant, generateHTML)
    /\ \E ok \in BOOLEAN :
          IF ok THEN /\ staged' = TRUE
                     /\ pc' = IF variant = "main" THEN "serveResult" ELSE "listen"
                     /\ UNCHANGED <<proc, tempDir>>
                ELSE Return /\ UNCHANGED pc
    /\ UNCHANGED <<variant, generateHTML, fs, outputMu, walkVars, exported, wg,
                   server, reqs, timers, aggVars>>

---------------------------------------------------------------------------
(* Delivery server *)

wgAddMissing(n) == n
\* wg.Add(1)
wgAdd(n) == n + 1

\* net.Listen("tcp", ":0"); wg.Add(1); go func() {...}(); then wg.Wait()
Listen ==
    /\ proc = "running" /\ pc = "listen"
    /\ \E ok \in BOOLEAN :
          IF ok THEN /\ server' = "bound"
                     /\ wg' = wgAdd(wg)
                     /\ pc' = "wait"
                     /\ UNCHANGED <<proc, tempDir, staged>>
                ELSE Return /\ UNCHANGED <<pc, server, wg>>
    /\ UNCHANGED <<variant, generateHTML, fs, outputMu, walkVars, exported, reqs,
                   timers, aggVars>>

\* the goroutine: http.HandleFunc("/" + outputFileName, ...) and into http.Serve
StartServing ==
    /\ proc = "running" /\ server = "bound"
    /\ server' = "serving"
    /\ UNCHANGED <<variant, generateHTML, fs, pc, outputMu, walkVars, tempDir,
                   staged, exported, wg, reqs, timers, proc, aggVars>>

\* http.Serve accepts a connection: a request to the report route, or to
\* some other path
Request(r) ==
    /\ proc = "running" /\ server = "serving" /\ reqs[r] = "none"
    /\ \E route \in {"pending", "other"} : reqs' = [reqs EXCEPT ![r] = route]
    /\ UNCHANGED <<variant, generateHTML, fs, pc, outputMu, walkVars, tempDir,
                   staged, exported, wg, server, timers, proc, aggVars>>

\* a request to a path with no registered handler is answered 404 by the mux
NotFound(r) ==
    /\ proc = "running" /\ reqs[r] = "other"
    /\ reqs' = [reqs EXCEPT ![r] = "notfound"]
    /\ UNCHANGED <<variant, generateHTML, fs, pc, outputMu, walkVars, tempDir,
                   staged, exported, wg, server, timers, proc, aggVars>>

ScheduleExitNever(tm, r) == tm
ScheduleExitReset(tm, r) == [x \in {r} |-> GraceTicks]
\* go func() { time.Sleep(1 * time.Second); os.Exit(0) }()
ScheduleExit(tm, r) ==
    [x \in DOMAIN tm \cup {r} |-> IF x = r THEN GraceTicks ELSE tm[x]]

\* the handler: http.ServeFile(w, r, outputPath), then the exit goroutine
Handler(r) ==
    /\ proc = "running" /\ reqs[r] = "pending"
    /\ reqs' = [reqs EXCEPT ![r] = IF staged THEN "served" ELSE "notfound"]
    /\ timers' = ScheduleExit(timers, r)
    /\ UNCHANGED <<variant, generateHTML, fs, pc, outputMu, walkVars, tempDir,
                   staged, exported, wg, server, proc, aggVars>>

Sleeping == DOMAIN timers

\* time passes while every exit goroutine is still asleep
Tick ==
    /\ proc = "running" /\ Sleeping # {}
    /\ \A r \in Sleeping : timers[r] > 0
    /\ timers' = [r \in DOMAIN timers |-> timers[r] - 1]
    /\ UNCHANGED <<variant, generateHTML, fs, pc, outputMu, walkVars, tempDir,
                   staged, exported, wg, server, reqs, proc, aggVars>>

\* os.Exit(0) in an exit goroutine: no deferred call runs
ExitTimerFires ==
    /\ proc = "running"
    /\ \E r \in Sleeping : timers[r] = 0
    /\ proc' = "exited"
    /\ UNCHANGED <<variant, generateHTML, fs, pc, outputMu, walkVars, tempDir,
                   staged, exported, wg, server, reqs, timers, aggVars>>

\* http.Serve returns (Accept failed for good); defer wg.Done()
ServeReturns ==
    /\ proc = "running" /\ server = "serving"
    /\ server' = "returned"
    /\ wg' = wg - 1
    /\ UNCHANGED <<variant, generateHTML, fs, pc, outputMu, walkVars, tempDir,
                   staged, exported, reqs, timers, proc, aggVars>>

\* wg.Wait() returns and runAnalysis with it
MainWait ==
    /\ proc = "running" /\ pc = "wait" /\ wg = 0
    /\ Return
    /\ UNCHANGED <<variant, generateHTML, fs, pc, outputMu, walkVars, exported, wg,
                   server, reqs, timers, aggVars>>

\* the process is terminated from outside
Kill ==
    /\ proc = "running"
    /\ proc' = "killed"
    /\ UNCHANGED <<variant, generateHTML, fs, pc, outputMu, walkVars, tempDir,
                   staged, exported, wg, server, reqs, timers, aggVars>>

---------------------------------------------------------------------------
(* The whole program *)

\* The trees the whole program is run on: two entries below the root, every
\* file a text file.
RunTrees ==
    { t \in TreesUpTo(2) :
        \A n \in DOMAIN t :
           /\ t[n].kind = "file" => HasTextPrefix(t[n].mime)
           /\ t[n].kind = "dir" => t[n].readable }

Init ==
    /\ variant \in Variants
    /\ generateHTML \in (IF variant = "part_002" THEN {FALSE} ELSE BOOLEAN)
    /\ fs \in RunTrees
    /\ pc = "start"
    /\ outputMu = NoOwner
    /\ InitWalkVars /\ InitRunVars /\ InitAggVars

Next ==
    \/ ResolvePath \/ CreateTempDir
    \/ CountItems \/ TraverseEnter \/ LoopDir \/ LoopFile \/ TraverseReturn
    \/ ExportStatic \/ StageReport
    \/ Listen \/ StartServing
    \/ \E r \in 1 .. MaxRequests : Request(r) \/ NotFound(r) \/ Handler(r)
    \/ Tick \/ ExitTimerFires \/ ServeReturns \/ MainWait \/ Kill

Spec == Init /\ [][Next]_vars

\* Time passes and a goroutine whose sleep is over runs.
FairSpec == Spec /\ WF_vars(Tick) /\ WF_vars(ExitTimerFires)

Served == { r \in DOMAIN reqs : reqs[r] = "served" }

---------------------------------------------------------------------------
(* Claims about the process and the delivery server (Spec, FairSpec) *)

\* C1: whenever the process has ended by a return of runAnalysis or by the
\* exit that follows serving, the staging directory and the staged report
\* are gone.
C1_StagingRemovedOnExit ==
    proc \in {"returned", "exited"} => (tempDir # "exists" /\ ~staged)

\* C3 as stated: at most one request is ever answered with the report, and
\* the serve-and-schedule-exit step runs at most once.
C3_ServedAtMostOnce ==
    Cardinality(Served) <= 1 /\ Cardinality(Sleeping) <= 1

\* C3 amended: every request to the route that is handled while the process
\* runs is answered with the report and starts one exit goroutine of its own;
\* the process exits through os.Exit only after a request was served; and no
\* request is answered once the process has ended.
C3_ServedWhileRunning ==
    /\ [](\A r \in DOMAIN reqs : reqs[r] = "served" <=> r \in Sleeping)
    /\ [](proc = "exited" => Served # {})
    /\ [][proc # "running" => reqs' = reqs]_vars

\* C3 witness: two requests were answered with the report before the exit.
C3_Witness == proc = "exited" /\ Cardinality(Served) >= 2

\* C4 as stated: a process that reached wg.Wait and then ended without being
\* killed has served a request.
C4_NoExitBeforeServed ==
    (pc = "wait" /\ proc \in {"returned", "exited"}) => Served # {}

\* C4 amended: a process that reached wg.Wait ends, unless killed, only by
\* the exit a served request scheduled or by wg.Wait returning, and wg.Wait
\* returns only after http.Serve itself has returned.
C4_WaitHoldsUntilServeEnds ==
    /\ (pc = "wait" /\ proc = "exited") => Served # {}
    /\ (pc = "wait" /\ proc = "returned") => (server = "returned" /\ wg = 0)
    /\ (pc = "wait" /\ proc = "running" /\ server # "returned") => wg > 0

\* C4 witness: the server is up, no request has been served, and the main
\* flow is held in wg.Wait.
C4_Witness ==
    pc = "wait" /\ proc = "running" /\ server = "serving" /\ Served = {} /\ wg = 1

\* C5: once a request has been served the process ends, and nothing puts off
\* or cancels an exit goroutine that is already asleep.
C5_ExitAfterServed ==
    /\ [][\A r \in DOMAIN timers :
             r \in DOMAIN timers' /\ timers'[r] <= timers[r]]_vars
    /\ ((Served # {}) ~> (proc # "running"))

\* C5 witness: the process exited after serving one request while another
\* request was still unanswered.
C5_Witness ==
    /\ proc = "exited" /\ Served # {}
    /\ \E r \in DOMAIN reqs : reqs[r] \in {"pending", "other"}

---------------------------------------------------------------------------
(* Concurrent callers of writeOutput (SpecAgg) *)

Callers == 1 .. MaxCallers

\* the block caller c appends in its i-th call
AggBlock(c, i) == <<"<block ", ToString(c), ".", ToString(i), ">", "</block>">>

\* a caller enters writeOutput(content)
AggCall(c) ==
    /\ cpc[c] = "idle" /\ cidx[c] <= MaxBlocks
    /\ cpc' = [cpc EXCEPT ![c] = "waiting"]
    /\ UNCHANGED <<variant, generateHTML, fs, pc, outputMu, walkVars, runVars, cidx,
                   cbuf>>

\* outputMu.Lock() returns
AggLock(c) ==
    /\ cpc[c] = "waiting"
    /\ MutexFree(outputMu)
    /\ outputMu' = c
    /\ cpc' = [cpc EXCEPT ![c] = "locked"]
    /\ UNCHANGED <<variant, generateHTML, fs, pc, walkVars, runVars, cidx, cbuf>>

\* output.WriteString(content), first half: append reads the buffer
AggRead(c) ==
    /\ cpc[c] = "locked"
    /\ cbuf' = [cbuf EXCEPT ![c] = output]
    /\ cpc' = [cpc EXCEPT ![c] = "copy"]
    /\ UNCHANGED <<variant, generateHTML, fs, pc, outputMu, walkVars, runVars, cidx>>

\* output.WriteString(content), second half: the grown buffer is stored
AggWrite(c) ==
    /\ cpc[c] = "copy"
    /\ output' = WriteString(cbuf[c], AggBlock(c, cidx[c]))
    /\ blocks' = Append(blocks, [node |-> <<c, cidx[c]>>,
                                 text |-> AggBlock(c, cidx[c])])
    /\ cpc' = [cpc EXCEPT ![c] = "written"]
    /\ UNCHANGED <<variant, generateHTML, fs, pc, outputMu, totalItems, barCount,
                   stack, visited, runVars, cidx, cbuf>>

\* defer outputMu.Unlock()
AggUnlock(c) ==
    /\ cpc[c] = "written"
    /\ outputMu' = NoOwner
    /\ cidx' = [cidx EXCEPT ![c] = @ + 1]
    /\ cpc' = [cpc EXCEPT ![c] = "idle"]
    /\ UNCHANGED <<variant, generateHTML, fs, pc, walkVars, runVars, cbuf>>

NextAgg ==
    \E c \in Callers :
       AggCall(c) \/ AggLock(c) \/ AggRead(c) \/ AggWrite(c) \/ AggUnlock(c)

InitAgg ==
    /\ variant = "main"
    /\ generateHTML = FALSE
    /\ fs \in { t \in TreesUpTo(0) : t[Root].readable }
    /\ pc = "traverse"
    /\ outputMu = NoOwner
    /\ InitWalkVars /\ InitRunVars /\ InitAggVars

SpecAgg == InitAgg /\ [][NextAgg]_vars

AllAppended == \A c \in Callers : cidx[c] > MaxBlocks

\* C9: callers of writeOutput never write at the same time; the report is at
\* every moment the blocks written so far, whole and in the order written;
\* and when all callers are done every block is in it exactly once, each
\* caller's blocks in the order of its calls.
C9_AppendAtomic ==
    /\ Cardinality({ c \in Callers : cpc[c] \in {"locked", "copy", "written"} }) <= 1
    /\ output = Flatten([k \in 1 .. Len(blocks) |-> blocks[k].text])
    /\ \A c \in Callers : \A i \in 1 .. MaxBlocks :
          /\ Cardinality(BlocksOf(<<c, i>>)) =
                (IF cidx[c] > i \/ (cidx[c] = i /\ cpc[c] = "written")
                 THEN 1 ELSE 0)
          /\ \A j \in 1 .. MaxBlocks :
                (i < j /\ BlocksOf(<<c, j>>) # {}) =>
                   \E a \in BlocksOf(<<c, i>>) : \A b \in BlocksOf(<<c, j>>) : a < b

\* C9 witness: all callers are done and their blocks are interleaved.
C9_Witness ==
    /\ AllAppended
    /\ Len(blocks) = MaxCallers * MaxBlocks
    /\ \E k \in 1 .. (Len(blocks) - 2) :
          /\ blocks[k].node[1] # blocks[k + 1].node[1]
          /\ blocks[k + 1].node[1] # blocks[k + 2].node[1]

=============================================================================
